---- MODULE Spec2Model ----
(***************************************************************************)
(* A model of the PDF outline extractor of Challenge_1a/process_pdfs.py    *)
(* (span extraction, body-style estimation, heading scoring, level         *)
(* classification, section grouping, the per-document call and the batch   *)
(* loop) and of the orchestrator of Challenge_1a/main.py (run, run_round_1a *)
(* and process_pdfs_in_folder).                                            *)
(*                                                                         *)
(* A Python str is a sequence of one-character strings, so that strip,     *)
(* split, isupper, lower, substring search and the heading regular         *)
(* expression are computed character by character.  Font sizes and         *)
(* vertical positions are integers (points).                               *)
(***************************************************************************)
EXTENDS Integers, Sequences, FiniteSets

VARIABLES
    caller,             \* the entry point that runs
    output_dir_exists,  \* whether the output base directory is on the disk
    output_dir,         \* the directory that the running loop writes into
    subfolders,         \* run(): the subfolders still to be processed
    pdf_paths,          \* the globbed pdfs of the running loop (pdf_paths, pdf_files)
    i,                  \* position of the for loop in pdf_paths (0: not started)
    attempts,           \* calls made for each pdf of the batch
    files,              \* each output file's content, or NoFile
    raised,             \* pdfs whose turn ended in the loop's except clause
    escaped,            \* pdfs whose extraction call raised to the loop
    pc,                 \* position of the running call
    outline_json_content, \* the value that generate_outline_from_pdf returned
    blocks,             \* extract_text_blocks' result
    body_size,          \* get_body_text_style's result [0]
    title_info,         \* identify_and_classify_headings: title_info
    heading_candidates, \* identify_and_classify_headings: heading_candidates
    headings,           \* identify_and_classify_headings: the returned headings
    sections            \* group_text_into_sections' result

vars == <<caller, output_dir_exists, output_dir, subfolders, pdf_paths, i,
          attempts, files, raised, escaped, pc, outline_json_content, blocks,
          body_size, title_info, heading_candidates, headings, sections>>

(***************************************************************************)
(* Integers and sequences                                                  *)
(***************************************************************************)
Max(S) == CHOOSE x \in S : \A y \in S : y <= x

Min(S) == CHOOSE x \in S : \A y \in S : x <= y

Range(s) == {s[k] : k \in DOMAIN s}

BoundedSeq(S, n) == UNION {[1..k -> S] : k \in 0..n}

RECURSIVE Concat(_)
Concat(ss) == IF ss = <<>> THEN <<>> ELSE Head(ss) \o Concat(Tail(ss))

(***************************************************************************)
(* Python str methods, on sequences of characters                          *)
(***************************************************************************)
\* the characters are those of Latin-1 (U+0000 to U+00FF), which lower() maps
\* into itself; Whitespace is what str.strip(), str.split() and \s take for
\* white space there: \t \n \v \f \r, U+001C to U+001F, the space, U+0085
\* and the no-break space U+00A0
Whitespace == {"\t", "\n", "", "\f", "\r", "",
               "", "", "", " ", "", " "}

\* \d: the decimal digits
Digits == {"0", "1", "2", "3", "4", "5", "6", "7", "8", "9"}

\* the characters that str.lower() changes, and what it makes of them
UpperSeq == <<"A", "B", "C", "D", "E", "F", "G", "H", "I", "J", "K", "L", "M",
              "N", "O", "P", "Q", "R", "S", "T", "U", "V", "W", "X", "Y", "Z",
              "À", "Á", "Â", "Ã", "Ä", "Å", "Æ", "Ç", "È", "É", "Ê", "Ë", "Ì",
              "Í", "Î", "Ï", "Ð", "Ñ", "Ò", "Ó", "Ô", "Õ", "Ö", "Ø", "Ù", "Ú",
              "Û", "Ü", "Ý", "Þ">>

LowerSeq == <<"a", "b", "c", "d", "e", "f", "g", "h", "i", "j", "k", "l", "m",
              "n", "o", "p", "q", "r", "s", "t", "u", "v", "w", "x", "y", "z",
              "à", "á", "â", "ã", "ä", "å", "æ", "ç", "è", "é", "ê", "ë", "ì",
              "í", "î", "ï", "ð", "ñ", "ò", "ó", "ô", "õ", "ö", "ø", "ù", "ú",
              "û", "ü", "ý", "þ">>

\* the uppercase characters
Upper == Range(UpperSeq)

\* the lowercase characters: some have no uppercase partner in Latin-1
Lower == Range(LowerSeq) \cup {"ª", "µ", "º", "ß", "ÿ"}

\* [A-Z]
AsciiUpper == {UpperSeq[k] : k \in 1..26}

\* str.strip(): leading and trailing whitespace removed
strip(s) ==
    LET keep == {k \in DOMAIN s : s[k] \notin Whitespace}
    IN  IF keep = {} THEN <<>> ELSE SubSeq(s, Min(keep), Max(keep))

\* len(str.split()): the number of maximal runs of non-whitespace
len_split(s) ==
    Cardinality({k \in DOMAIN s :
                    /\ s[k] \notin Whitespace
                    /\ (k = 1 \/ s[k - 1] \in Whitespace)})

\* str.isupper(): some cased character, and no lowercase one
isupper(s) ==
    /\ \E k \in DOMAIN s : s[k] \in Upper
    /\ \A k \in DOMAIN s : s[k] \notin Lower

\* str.lower()
lower(s) ==
    [k \in DOMAIN s |->
        IF s[k] \in Upper
        THEN LowerSeq[CHOOSE j \in DOMAIN UpperSeq : UpperSeq[j] = s[k]]
        ELSE s[k]]

\* sub in s
contains(s, sub) ==
    \E k \in 1..(Len(s) - Len(sub) + 1) : SubSeq(s, k, k + Len(sub) - 1) = sub

(***************************************************************************)
(* heading_pattern = ^\s*(\d+(\.\d+)*\.?|[A-Z]\.)\s+   (re.match)          *)
(***************************************************************************)
\* the first position from k on whose character is not in S (Len(s)+1: none)
SkipWhile(s, k, S) == Min({j \in k..Len(s) : s[j] \notin S} \cup {Len(s) + 1})

At(s, k, S) == k <= Len(s) /\ s[k] \in S

\* (\.\d+)* from position k, greedy: the position after the last group
RECURSIVE DotGroups(_, _)
DotGroups(s, k) ==
    IF At(s, k, {"."}) /\ At(s, k + 1, Digits)
    THEN DotGroups(s, SkipWhile(s, k + 1, Digits))
    ELSE k

heading_pattern_match(s) ==
    LET p0 == SkipWhile(s, 1, Whitespace)
        p1 == SkipWhile(s, p0, Digits)
        p2 == DotGroups(s, p1)
        p3 == IF At(s, p2, {"."}) THEN p2 + 1 ELSE p2
    IN  \/ At(s, p0, Digits) /\ At(s, p3, Whitespace)
        \/ At(s, p0, AsciiUpper) /\ At(s, p0 + 1, {"."}) /\ At(s, p0 + 2, Whitespace)

(***************************************************************************)
(* The parsed document (PyMuPDF).  A document either opens or not; a page  *)
(* either yields its text dict or get_text raises.  A page's spans are     *)
(* listed in the order of the nested block / line / span loops.            *)
(*   doc  = [openable, pages]      page = [readable, spans]                *)
(*   span = [text, size, font, y0]   (y0 is bbox[1])                       *)
(***************************************************************************)
NoLimit == {}

\* range(len(doc)), or range(min(len(doc), page_limit))
pages_to_process(doc, page_limit) ==
    IF page_limit = NoLimit
    THEN 1..Len(doc.pages)
    ELSE 1..Min({Len(doc.pages), Max(page_limit)})

\* the spans of page number page_num (1-based) that are kept, as blocks_data rows
page_blocks(page, page_num) ==
    LET row(s) == [text      |-> strip(s.text),
                   font_size |-> s.size,
                   font_name |-> s.font,
                   page      |-> page_num,
                   y_pos     |-> s.y0]
        rows == [k \in DOMAIN page.spans |-> row(page.spans[k])]
    IN  SelectSeq(rows, LAMBDA r : r.text # <<>>)

\* page.get_text raises on some page that is processed
extract_raises(doc, page_limit) ==
    \E p \in pages_to_process(doc, page_limit) : ~doc.pages[p].readable

extract_text_blocks(doc, page_limit) ==
    LET n == Cardinality(pages_to_process(doc, page_limit))
    IN  Concat([p \in 1..n |-> page_blocks(doc.pages[p], p)])

(***************************************************************************)
(* get_body_text_style                                                     *)
(***************************************************************************)
LargeFont == 20

DefaultBodySize == 12

\* Counter(data): the distinct values in order of first occurrence
counter_keys(data) ==
    LET first == {k \in DOMAIN data : \A j \in 1..(k - 1) : data[j] # data[k]}
        RECURSIVE Asc(_)
        Asc(S) == IF S = {} THEN <<>>
                  ELSE <<data[Min(S)]>> \o Asc(S \ {Min(S)})
    IN  Asc(first)

count(data, v) == Cardinality({k \in DOMAIN data : data[k] = v})

\* faulty variant, for sensitivity: of the values of the largest count, the last one
statistics_mode_last(data) ==
    LET best == Max({count(data, data[k]) : k \in DOMAIN data})
    IN  data[Max({k \in DOMAIN data : count(data, data[k]) = best})]

\* statistics.mode(data), data not empty: Counter(data).most_common(1)[0][0],
\* the first key, in order of first occurrence, whose count is the largest
statistics_mode(data) ==
    LET keys == counter_keys(data)
        best == Max({count(data, keys[k]) : k \in DOMAIN keys})
        k0   == Min({k \in DOMAIN keys : count(data, keys[k]) = best})
    IN  keys[k0]

font_sizes_of(bs) == [k \in DOMAIN bs |-> bs[k].font_size]

get_body_text_style(bs) ==
    IF bs = <<>>
    THEN <<DefaultBodySize, "default">>
    ELSE LET small      == SelectSeq(bs, LAMBDA b : b.font_size < LargeFont)
             font_sizes == IF small = <<>> THEN font_sizes_of(bs)
                           ELSE font_sizes_of(small)
         IN  <<statistics_mode(font_sizes), "">>

(***************************************************************************)
(* identify_and_classify_headings                                          *)
(***************************************************************************)
\* Python's None for title_info
NoTitle == [text |-> <<>>, page |-> 0]

\* faulty variant, for sensitivity: the first span of page 1, whatever its size
find_title_first_span(bs) ==
    LET first_page_blocks == SelectSeq(bs, LAMBDA b : b.page = 1)
    IN  IF first_page_blocks = <<>>
        THEN [text |-> <<>>, page |-> 0]
        ELSE [text |-> first_page_blocks[1].text, page |-> 1]

find_title(bs) ==
    LET first_page_blocks == SelectSeq(bs, LAMBDA b : b.page = 1)
    IN  IF first_page_blocks = <<>>
        THEN NoTitle
        ELSE LET max_font_size ==
                     Max({first_page_blocks[k].font_size :
                             k \in DOMAIN first_page_blocks})
                 k0 == Min({k \in DOMAIN first_page_blocks :
                               first_page_blocks[k].font_size = max_font_size})
             IN  [text |-> first_page_blocks[k0].text, page |-> 1]

SizeDelta == 1

OversizedPoints == 2

BoldPoints == 1

PatternPoints == 5

ShortPoints == 1

CapsPoints == 1

ShortWords == 15

CapsMinLen == 2

ScoreThreshold == 4

MaxLevels == 3

bold == <<"b", "o", "l", "d">>

\* faulty variant, for sensitivity: the numbering pattern is worth 3 points
score_weak_pattern(b, body) ==
      (IF b.font_size > body + SizeDelta THEN OversizedPoints ELSE 0)
    + (IF contains(lower(b.font_name), bold) THEN BoldPoints ELSE 0)
    + (IF heading_pattern_match(b.text) THEN 3 ELSE 0)
    + (IF len_split(b.text) < ShortWords THEN ShortPoints ELSE 0)
    + (IF isupper(b.text) /\ Len(b.text) > CapsMinLen THEN CapsPoints ELSE 0)

score(b, body) ==
      (IF b.font_size > body + SizeDelta THEN OversizedPoints ELSE 0)
    + (IF contains(lower(b.font_name), bold) THEN BoldPoints ELSE 0)
    + (IF heading_pattern_match(b.text) THEN PatternPoints ELSE 0)
    + (IF len_split(b.text) < ShortWords THEN ShortPoints ELSE 0)
    + (IF isupper(b.text) /\ Len(b.text) > CapsMinLen THEN CapsPoints ELSE 0)

\* faulty variant, for sensitivity: the title is not skipped
skip_title_never(b, title) == FALSE

\* "Skip the title itself": the continue of the scoring loop
skip_title(b, title) ==
    title # NoTitle /\ b.text = title.text /\ b.page = 1

is_candidate(b, body, title) ==
    ~skip_title(b, title) /\ score(b, body) >= ScoreThreshold

find_candidates(bs, body, title) ==
    SelectSeq(bs, LAMBDA b : is_candidate(b, body, title))

\* sorted(list(set(font sizes)), reverse=True)
RECURSIVE sorted_desc(_)
sorted_desc(S) ==
    IF S = {} THEN <<>> ELSE <<Max(S)>> \o sorted_desc(S \ {Max(S)})

\* faulty variant, for sensitivity: the sizes sorted without reverse=True
heading_styles_ascending(cands) ==
    LET sizes == {cands[k].font_size : k \in DOMAIN cands}
        RECURSIVE Asc(_)
        Asc(S) == IF S = {} THEN <<>> ELSE <<Min(S)>> \o Asc(S \ {Min(S)})
    IN  Asc(sizes)

heading_styles(cands) == sorted_desc({cands[k].font_size : k \in DOMAIN cands})

LevelName == <<"H1", "H2", "H3">>

\* {style: f"H{i+1}" for i, style in enumerate(heading_styles[:3])}
style_map(cands) ==
    LET styles == heading_styles(cands)
        top    == SubSeq(styles, 1, Min({MaxLevels, Len(styles)}))
    IN  [s \in Range(top) |->
            LevelName[CHOOSE k \in DOMAIN top : top[k] = s]]

\* the loop that appends a heading for each candidate whose size is mapped
leveled(cands) ==
    LET sm   == style_map(cands)
        kept == SelectSeq(cands, LAMBDA b : b.font_size \in DOMAIN sm)
    IN  [k \in DOMAIN kept |->
            [level |-> sm[kept[k].font_size],
             text  |-> kept[k].text,
             page  |-> kept[k].page,
             y_pos |-> kept[k].y_pos]]

\* (a.page, a.y_pos) <= (b.page, b.y_pos), as Python compares tuples
key_le(a, b) == a.page < b.page \/ (a.page = b.page /\ a.y_pos <= b.y_pos)

\* faulty variant, for sensitivity: sorted by page alone
RECURSIVE sorted_by_page(_)
sorted_by_page(hs) ==
    IF hs = <<>> THEN <<>>
    ELSE LET n    == Len(hs)
             rest == sorted_by_page(SubSeq(hs, 1, n - 1))
             x    == hs[n]
             pos  == Cardinality({k \in DOMAIN rest : rest[k].page <= x.page})
         IN  SubSeq(rest, 1, pos) \o <<x>> \o SubSeq(rest, pos + 1, Len(rest))

\* sorted(hs, key=lambda x: (x['page'], x['y_pos'])): stable
RECURSIVE sorted_by_position(_)
sorted_by_position(hs) ==
    IF hs = <<>> THEN <<>>
    ELSE LET n    == Len(hs)
             rest == sorted_by_position(SubSeq(hs, 1, n - 1))
             x    == hs[n]
             pos  == Cardinality({k \in DOMAIN rest : key_le(rest[k], x)})
         IN  SubSeq(rest, 1, pos) \o <<x>> \o SubSeq(rest, pos + 1, Len(rest))

\* returns <<headings, title_info>>
identify_and_classify_headings(bs, body) ==
    LET title == find_title(bs)
        cands == find_candidates(bs, body, title)
    IN  IF cands = <<>>
        THEN <<(<<>>), title>>
        ELSE <<sorted_by_position(leveled(cands)), title>>

(***************************************************************************)
(* group_text_into_sections                                                *)
(***************************************************************************)
Newline == <<"\n">>

\* the content of the section of headings hs[k]: the loop over blocks
section_content(bs, hs, k) ==
    LET heading  == hs[k]
        has_next == k + 1 <= Len(hs)
        is_after_start(b) ==
            \/ b.page > heading.page
            \/ b.page = heading.page /\ b.y_pos > heading.y_pos
        \* end_page and end_y are float('inf') for the last heading
        is_before_end(b) ==
            \/ ~has_next
            \/ b.page < hs[k + 1].page
            \/ b.page = hs[k + 1].page /\ b.y_pos < hs[k + 1].y_pos
        is_heading(b) ==
            \E j \in DOMAIN hs : hs[j].text = b.text /\ hs[j].page = b.page
        taken == SelectSeq(bs, LAMBDA b :
                    is_after_start(b) /\ is_before_end(b) /\ ~is_heading(b))
    IN  strip(Concat([j \in DOMAIN taken |-> taken[j].text \o Newline]))

group_text_into_sections(bs, hs) ==
    IF hs = <<>> THEN <<>>
    ELSE [k \in DOMAIN hs |->
            [heading_text  |-> hs[k].text,
             heading_level |-> hs[k].level,
             page          |-> hs[k].page,
             content       |-> section_content(bs, hs, k)]]

(***************************************************************************)
(* generate_outline_from_pdf: the JSON values it returns                   *)
(***************************************************************************)
Untitled == <<"U", "n", "t", "i", "t", "l", "e", "d">>

error_json == [error |-> "Could not open PDF"]

empty_json == [title |-> <<>>, outline |-> <<>>]

outline_json(hs, title) ==
    [title   |-> IF title # NoTitle THEN title.text ELSE Untitled,
     outline |-> [k \in DOMAIN hs |->
                    [level |-> hs[k].level,
                     text  |-> hs[k].text,
                     page  |-> hs[k].page]]]

\* one whole call: what it returns, or that it raises
generate_outline_from_pdf(doc) ==
    IF ~doc.openable
    THEN [kind |-> "return", value |-> error_json]
    ELSE IF extract_raises(doc, NoLimit)
    THEN [kind |-> "raise", value |-> NoLimit]
    ELSE LET bs == extract_text_blocks(doc, NoLimit)
             r  == identify_and_classify_headings(bs, get_body_text_style(bs)[1])
         IN  IF bs = <<>>
             THEN [kind |-> "return", value |-> empty_json]
             ELSE [kind |-> "return", value |-> outline_json(r[1], r[2])]

(***************************************************************************)
(* Files.  A pdf is its path, [dir, stem], with what fitz finds there;     *)
(* an output file is named by its directory and the stem it is made from.  *)
(***************************************************************************)
NoFile == [absent |-> TRUE]

NoContent == [unset |-> TRUE]

\* an output file that an earlier run has left in the output directory
OldFile == [other |-> TRUE]

Pdf(dir, stem, doc) ==
    [dir |-> dir, stem |-> stem, openable |-> doc.openable, pages |-> doc.pages]

\* glob.glob(os.path.join(target_input_dir, "*.pdf")) on a folder of docs;
\* it passes over the names that begin with a dot, and the names it finds
\* have one stem each
Folder(dir, docs) == [k \in DOMAIN docs |-> Pdf(dir, k, docs[k])]

\* <dir>/<stem>_outline.json
OutPath(dir, stem) == [dir |-> dir, stem |-> stem]

\* the file that a write leaves when it raises after open: empty, or a part
\* of the content
Partial(content) == [partial |-> content]

\* the callers that run process_pdfs.py's loop
ProcessPdfsCallers == {"main", "process_pdf_outlines_round_1a"}

(***************************************************************************)
(* Actions.  One call of generate_outline_from_pdf runs through            *)
(*   open -> extract -> style -> classify -> outline -> write              *)
(* inside the for loop of process_pdf_outlines_round_1a.                   *)
(***************************************************************************)
fresh_locals ==
    /\ blocks = <<>>
    /\ body_size = 0
    /\ title_info = NoTitle
    /\ heading_candidates = <<>>
    /\ headings = <<>>
    /\ sections = <<>>

\* the turn of the loop is over: the locals are dropped and the loop takes
\* the next pdf; after the last one the function returns, in run() to the
\* loop over the subfolders
next_pdf ==
    /\ blocks' = <<>>
    /\ body_size' = 0
    /\ title_info' = NoTitle
    /\ heading_candidates' = <<>>
    /\ headings' = <<>>
    /\ sections' = <<>>
    /\ outline_json_content' = NoContent
    /\ IF i < Len(pdf_paths)
       THEN i' = i + 1 /\ pc' = "open"
       ELSE /\ i' = i
            /\ pc' = IF caller # "run" THEN "done"
                     ELSE IF pdf_paths[i].dir = <<"input">> THEN "iterdir"
                     ELSE "subfolders"

\* an exception leaves the entry point: nothing more is run
abort ==
    /\ pc' = "aborted"
    /\ UNCHANGED <<output_dir, pdf_paths, i>>

\* a return before any loop
return_early ==
    /\ pc' = "done"
    /\ UNCHANGED <<output_dir, subfolders, pdf_paths, i, attempts, files>>

\* the for loop starts on the globbed pdfs, writing into the directory out
start_loop(pdfs, out) ==
    /\ pdf_paths' = pdfs
    /\ output_dir' = out
    /\ i' = 1
    /\ pc' = "open"

\* a batch: no pdf is attempted yet; the output directory is neither looked
\* at nor cleared, so that an output file may be there from an earlier run
new_batch(pdfs, outputs) ==
    /\ attempts' = [p \in pdfs |-> 0]
    /\ files' \in [outputs -> {NoFile, OldFile}]

\* the output files of a folder's pdfs in the directory out
Outputs(pdfs, out) == {OutPath(out, p.stem) : p \in Range(pdfs)}

\* a batch of one folder of process_pdfs.py: without pdfs the function
\* returns
start_batch(pdfs, out) ==
    IF pdfs = <<>>
    THEN return_early
    ELSE /\ start_loop(pdfs, out)
         /\ new_batch(Range(pdfs), Outputs(pdfs, out))
         /\ UNCHANGED subfolders

\* os.makedirs and Path.mkdir are called outside any try: they make the
\* directory (or find it), or raise (no permission, a file of that name, a
\* parent that is gone)
MkdirOutcomes == {"made", "raises"}

\* process_pdf_outlines_round_1a(input_base_dir, output_base_dir) up to the
\* loop: it returns when <input_base_dir>/input is missing or has no pdf;
\* it does not create output_base_dir
process_pdf_outlines_round_1a(folders) ==
    /\ pc = "start"
    /\ caller = "process_pdf_outlines_round_1a"
    /\ \E target_input_dir_exists \in BOOLEAN, docs \in folders :
          IF target_input_dir_exists
          THEN start_batch(Folder(<<"input">>, docs), <<"output">>)
          ELSE return_early
    /\ UNCHANGED <<caller, output_dir_exists, raised, escaped,
                   outline_json_content, blocks, body_size, title_info,
                   heading_candidates, headings, sections>>

\* main(): both directories are made, then the batch runs; when a makedirs
\* raises, main() is left before any pdf of the input folder is attempted
main(folders) ==
    /\ pc = "start"
    /\ caller = "main"
    /\ \E docs \in folders, outcome \in MkdirOutcomes :
          LET pdfs == Folder(<<"input">>, docs)
          IN  IF outcome = "made"
              THEN /\ output_dir_exists' = TRUE
                   /\ start_batch(pdfs, <<"output">>)
              ELSE /\ output_dir_exists' \in {output_dir_exists, TRUE}
                   /\ new_batch(Range(pdfs), Outputs(pdfs, <<"output">>))
                   /\ abort
                   /\ UNCHANGED subfolders
    /\ UNCHANGED <<caller, raised, escaped, outline_json_content, blocks,
                   body_size, title_info, heading_candidates, headings, sections>>

\* fitz.open: on failure the call returns the error JSON
open_pdf ==
    /\ pc = "open"
    /\ caller \in ProcessPdfsCallers
    /\ attempts' = [attempts EXCEPT ![pdf_paths[i]] = @ + 1]
    /\ IF pdf_paths[i].openable
       THEN /\ pc' = "extract"
            /\ UNCHANGED outline_json_content
       ELSE /\ outline_json_content' = error_json
            /\ pc' = "write"
    /\ UNCHANGED <<caller, output_dir_exists, output_dir, subfolders, pdf_paths,
                   i, files, raised, escaped, blocks, body_size, title_info,
                   heading_candidates, headings, sections>>

\* extract_text_blocks(doc): an exception leaves generate_outline_from_pdf
\* and is swallowed by the loop's except clause; no blocks: the empty JSON
extract_blocks ==
    /\ pc = "extract"
    /\ IF extract_raises(pdf_paths[i], NoLimit)
       THEN /\ escaped' = escaped \cup {pdf_paths[i]}
            /\ raised' = raised \cup {pdf_paths[i]}
            /\ next_pdf
       ELSE LET bs == extract_text_blocks(pdf_paths[i], NoLimit)
            IN  /\ IF bs = <<>>
                   THEN /\ outline_json_content' = empty_json
                        /\ pc' = "write"
                        /\ UNCHANGED blocks
                   ELSE /\ blocks' = bs
                        /\ pc' = "style"
                        /\ UNCHANGED outline_json_content
                /\ UNCHANGED <<i, raised, escaped, body_size, title_info,
                               heading_candidates, headings, sections>>
    /\ UNCHANGED <<caller, output_dir_exists, output_dir, subfolders, pdf_paths,
                   attempts, files>>

body_text_style ==
    /\ pc = "style"
    /\ body_size' = get_body_text_style(blocks)[1]
    /\ pc' = "classify"
    /\ UNCHANGED <<caller, output_dir_exists, output_dir, subfolders, pdf_paths,
                   i, attempts, files, raised, escaped, outline_json_content,
                   blocks, title_info, heading_candidates, headings, sections>>

classify_headings ==
    /\ pc = "classify"
    /\ LET r == identify_and_classify_headings(blocks, body_size)
       IN  /\ headings' = r[1]
           /\ title_info' = r[2]
           /\ heading_candidates' = find_candidates(blocks, body_size, r[2])
    /\ pc' = "outline"
    /\ UNCHANGED <<caller, output_dir_exists, output_dir, subfolders, pdf_paths,
                   i, attempts, files, raised, escaped, outline_json_content,
                   blocks, body_size, sections>>

\* the rest of generate_outline_from_pdf: json.dumps of title and outline
dump_outline ==
    /\ pc = "outline"
    /\ i \in DOMAIN pdf_paths
    /\ outline_json_content' = outline_json(headings, title_info)
    /\ pc' = "write"
    /\ UNCHANGED <<caller, output_dir_exists, output_dir, subfolders, pdf_paths,
                   i, attempts, files, raised, escaped, blocks, body_size,
                   title_info, heading_candidates, headings, sections>>

\* open(path, "w") never returns a file when the directory is missing; with
\* the directory there it still raises for a name that the file system
\* refuses (<stem>_outline.json is longer than <stem>.pdf), a path that is
\* a directory, a missing permission; after it, f.write or the close may
\* raise (a full disk)
WriteOutcomes(dir_exists) ==
    IF dir_exists THEN {"written", "open raises", "write raises"}
    ELSE {"open raises"}

\* the write of the loop: an exception of open, f.write or close is
\* swallowed by the except clause; no file is made, or a partial one is left
write_outline ==
    /\ pc = "write"
    /\ LET output_full_path == OutPath(output_dir, pdf_paths[i].stem)
       IN  \E outcome \in WriteOutcomes(output_dir_exists) :
              CASE outcome = "written" ->
                     /\ files' = [files EXCEPT ![output_full_path] =
                                                  outline_json_content]
                     /\ UNCHANGED raised
                [] outcome = "open raises" ->
                     /\ raised' = raised \cup {pdf_paths[i]}
                     /\ UNCHANGED files
                [] outcome = "write raises" ->
                     /\ files' = [files EXCEPT ![output_full_path] =
                                                  Partial(outline_json_content)]
                     /\ raised' = raised \cup {pdf_paths[i]}
    /\ next_pdf
    /\ UNCHANGED <<caller, output_dir_exists, output_dir, subfolders, pdf_paths,
                   attempts, escaped>>

\* group_text_into_sections applied to the classified headings
group_sections ==
    /\ pc = "outline"
    /\ i = 0
    /\ sections' = group_text_into_sections(blocks, headings)
    /\ pc' = "grouped"
    /\ UNCHANGED <<caller, output_dir_exists, output_dir, subfolders, pdf_paths,
                   i, attempts, files, raised, escaped, outline_json_content,
                   blocks, body_size, title_info, heading_candidates, headings>>

(***************************************************************************)
(* main.py: ChallengeOrchestrator.  Its constructor makes the output       *)
(* directory.  The class PDFStructureExtractor it calls is not among the   *)
(* sources: a call of its extract_pdf_outline returns a result, kept here  *)
(* as the application itself, or raises an Exception; open of the output   *)
(* file may raise; json.dump writes the result, or raises (a result it     *)
(* cannot serialize, a full disk) and leaves a part of the file.           *)
(***************************************************************************)
extract_pdf_outline(pdf) == [extract_pdf_outline |-> pdf]

TurnOutcomes == {"written", "open raises", "json.dump raises", "extractor raises"}

\* Path.stem: the name without its last suffix, which the last dot starts
\* unless it is the first or the last character of the name
stem(name) ==
    LET dots == {k \in DOMAIN name : name[k] = "."}
    IN  IF dots # {} /\ 1 < Max(dots) /\ Max(dots) < Len(name)
        THEN SubSeq(name, 1, Max(dots) - 1)
        ELSE name

\* the pdfs that folder_path.glob("*.pdf") finds in the folder dir, given
\* their names in the order of the glob; it finds the dot files too
PdfFiles(dir, names) ==
    [k \in DOMAIN names |-> [dir |-> dir, name |-> names[k], stem |-> stem(names[k])]]

\* the names a folder may have
FolderNames == {"input", "sub"}

\* one turn of the for loop of process_pdfs_in_folder and of run_round_1a:
\* the call, open and json.dump, or the exception that the except clause logs
loop_turn ==
    /\ pc = "open"
    /\ attempts' = [attempts EXCEPT ![pdf_paths[i]] = @ + 1]
    /\ LET pdf_file    == pdf_paths[i]
           output_path == OutPath(output_dir, pdf_file.stem)
           result      == extract_pdf_outline(pdf_file)
       IN  \E outcome \in TurnOutcomes :
              CASE outcome = "written" ->
                     /\ files' = [files EXCEPT ![output_path] = result]
                     /\ UNCHANGED <<raised, escaped>>
                [] outcome = "open raises" ->
                     /\ raised' = raised \cup {pdf_file}
                     /\ UNCHANGED <<files, escaped>>
                [] outcome = "json.dump raises" ->
                     /\ files' = [files EXCEPT ![output_path] = Partial(result)]
                     /\ raised' = raised \cup {pdf_file}
                     /\ UNCHANGED escaped
                [] outcome = "extractor raises" ->
                     /\ raised' = raised \cup {pdf_file}
                     /\ escaped' = escaped \cup {pdf_file}
                     /\ UNCHANGED files
    /\ next_pdf
    /\ UNCHANGED <<caller, output_dir_exists, output_dir, subfolders, pdf_paths>>

\* process_pdfs_in_folder after a glob that found pdfs: it makes
\* <output_dir>/<folder_name> and starts the loop; when mkdir raises, the
\* exception leaves the function, and run() with it
enter_folder(pdfs, out) ==
    \E outcome \in MkdirOutcomes :
        IF outcome = "made" THEN start_loop(pdfs, out) ELSE abort

\* a call on one folder: it returns when the glob is empty
folder_batch(pdfs, out) ==
    IF pdfs = <<>>
    THEN return_early
    ELSE /\ enter_folder(pdfs, out)
         /\ new_batch(Range(pdfs), Outputs(pdfs, out))
         /\ UNCHANGED subfolders

\* process_pdfs_in_folder(folder_path, folder_name) up to the loop
process_pdfs_in_folder(listings) ==
    /\ pc = "start"
    /\ caller = "process_pdfs_in_folder"
    /\ \E names \in listings, path_name \in FolderNames, folder_name \in FolderNames :
          folder_batch(PdfFiles(<<"input", path_name>>, names), <<"output", folder_name>>)
    /\ UNCHANGED <<caller, output_dir_exists, raised, escaped,
                   outline_json_content, blocks, body_size, title_info,
                   heading_candidates, headings, sections>>

\* its for loop
process_pdf_file ==
    /\ caller \in {"process_pdfs_in_folder", "run"}
    /\ loop_turn

\* run_round_1a(folder_path) up to the loop: the same, for folder_path.name
run_round_1a(listings) ==
    /\ pc = "start"
    /\ caller = "run_round_1a"
    /\ \E names \in listings, name \in FolderNames :
          folder_batch(PdfFiles(<<"input", name>>, names), <<"output", name>>)
    /\ UNCHANGED <<caller, output_dir_exists, raised, escaped,
                   outline_json_content, blocks, body_size, title_info,
                   heading_candidates, headings, sections>>

\* its for loop
round_1a_file ==
    /\ caller = "run_round_1a"
    /\ loop_turn

\* the pdfs of a tree, and the output files that run() can make of them
TreePdfs(tree) ==
    Range(tree.direct_pdfs)
        \cup UNION {Range(tree.subfolders[k].pdfs) : k \in DOMAIN tree.subfolders}

TreeOutputs(tree) ==
    {OutPath(<<"output", "input">>, p.stem) : p \in Range(tree.direct_pdfs)}
        \cup UNION {{OutPath(<<"output", tree.subfolders[k].name>>, p.stem) :
                        p \in Range(tree.subfolders[k].pdfs)} :
                    k \in DOMAIN tree.subfolders}

\* run() up to the first loop: returns when the input directory is missing;
\* the pdfs directly in it are processed as the folder "input"; subfolders
\* holds what iterdir() will find
run(trees) ==
    /\ pc = "start"
    /\ caller = "run"
    /\ \E input_dir_exists \in BOOLEAN, tree \in trees :
          IF ~input_dir_exists
          THEN return_early
          ELSE /\ new_batch(TreePdfs(tree), TreeOutputs(tree))
               /\ subfolders' = tree.subfolders
               /\ IF tree.direct_pdfs # <<>>
                  THEN enter_folder(tree.direct_pdfs, <<"output", "input">>)
                  ELSE /\ pc' = "iterdir"
                       /\ UNCHANGED <<output_dir, pdf_paths, i>>
    /\ UNCHANGED <<caller, output_dir_exists, raised, escaped,
                   outline_json_content, blocks, body_size, title_info,
                   heading_candidates, headings, sections>>

\* self.input_dir.iterdir() lists the directory, or raises (the input path
\* is a regular file, which exists() accepts and where glob finds nothing;
\* no permission)
IterdirOutcomes == {"listed", "raises"}

\* run(): the subfolders are listed, outside any try
list_subfolders ==
    /\ pc = "iterdir"
    /\ \E outcome \in IterdirOutcomes :
          pc' = IF outcome = "listed" THEN "subfolders" ELSE "aborted"
    /\ UNCHANGED <<caller, output_dir_exists, output_dir, subfolders, pdf_paths,
                   i, attempts, files, raised, escaped, outline_json_content,
                   blocks, body_size, title_info, heading_candidates, headings,
                   sections>>

\* run(): the loop over the subfolders; one with pdfs is processed under
\* its own name, one without is passed over; a mkdir that raises ends run()
\* with the later subfolders not looked at
run_subfolder ==
    /\ pc = "subfolders"
    /\ IF subfolders = <<>>
       THEN /\ pc' = "done"
            /\ UNCHANGED <<output_dir, subfolders, pdf_paths, i>>
       ELSE LET folder == Head(subfolders)
            IN  /\ subfolders' = Tail(subfolders)
                /\ IF folder.pdfs # <<>>
                   THEN enter_folder(folder.pdfs, <<"output", folder.name>>)
                   ELSE UNCHANGED <<pc, output_dir, pdf_paths, i>>
    /\ UNCHANGED <<caller, output_dir_exists, attempts, files, raised, escaped,
                   outline_json_content, blocks, body_size, title_info,
                   heading_candidates, headings, sections>>

\* the steps of one call of generate_outline_from_pdf, and of the loops
Step ==
    \/ open_pdf
    \/ extract_blocks
    \/ body_text_style
    \/ classify_headings
    \/ dump_outline
    \/ write_outline
    \/ process_pdf_file
    \/ round_1a_file
    \/ list_subfolders
    \/ run_subfolder

FunctionNext ==
    \/ body_text_style
    \/ classify_headings
    \/ group_sections

(***************************************************************************)
(* Inputs: texts, fonts and bounded lists of blocks                        *)
(***************************************************************************)
MaxStyleSpans == 4

MaxScoreSpans == 2

MaxLevelSpans == 4

MaxOrderSpans == 3

MaxDocSpans == 3

MaxPdfs == 3

MaxRunPdfs == 1

\* "1. A": numbered prefix, short, all caps
T_num == <<"1", ".", " ", "A">>

\* "Ab": short
T_short == <<"A", "b">>

\* "ABC": short, all caps
T_caps == <<"A", "B", "C">>

\* "ab": short, lowercase body text
T_body == <<"a", "b">>

\* "a a a a a a a a a a a a a a a": fifteen words
T_long == [k \in 1..29 |-> IF k % 2 = 1 THEN "a" ELSE " "]

\* "B. " followed by fourteen words: lettered prefix, fifteen words
T_longnum == <<"B", ".", " ">> \o SubSeq(T_long, 1, 27)

\* "1.2 x": numbered prefix without the closing dot, short
T_sub == <<"1", ".", "2", " ", "x">>

Sans == <<"S", "a", "n", "s">>

SansBold == <<"S", "a", "n", "s", "-", "B", "o", "l", "d">>

Block(t, fs, fn, p, y) ==
    [text |-> t, font_size |-> fs, font_name |-> fn, page |-> p, y_pos |-> y]

\* get_body_text_style: only the sizes vary, on both sides of LargeFont
StyleBlocks == {Block(T_body, fs, Sans, 1, 1) : fs \in {10, 12, 20, 24}}

\* scoring: every signal on and off, on the title page and after it
ScoreBlocks ==
    {Block(t, fs, fn, p, 1) :
        t \in {T_short, T_caps, T_long, T_longnum},
        fs \in {10, 12, 13}, fn \in {Sans, SansBold}, p \in {1, 2}}

\* levels: numbered headings of four sizes after the title page, and a title
LevelBlocks ==
    {Block(T_num, fs, Sans, 2, y) : fs \in {10, 12, 14, 16}, y \in {1, 2}}
    \cup {Block(T_short, 18, Sans, 1, 1), Block(T_sub, 14, Sans, 1, 2)}

\* order and sections: headings, body text and an all-caps text that is a
\* heading at one size and body text at the other
OrderBlocks ==
    {Block(st[1], st[2], Sans, p, y) :
        st \in {<<T_num, 14>>, <<T_body, 10>>, <<T_caps, 10>>, <<T_caps, 14>>},
        p \in {1, 2}, y \in {1, 2}}

\* parsed documents: raw spans before strip, some of them blank
RawSpans ==
    {[text |-> t, size |-> fs, font |-> Sans, y0 |-> 1] :
        t \in {T_short, T_num, <<" ", " ">>, <<" ", "a", "b", "\r">>}, fs \in {10, 12}}

Page(spans) == [readable |-> TRUE, spans |-> spans]

UnreadablePage == [readable |-> FALSE, spans |-> <<>>]

\* two-page documents that open and read, of at most MaxDocSpans spans
RichDocs ==
    LET pages == BoundedSeq(RawSpans, MaxDocSpans)
    IN  {[openable |-> TRUE, pages |-> <<Page(pp[1]), Page(pp[2])>>] :
            pp \in {qq \in pages \X pages : Len(qq[1]) + Len(qq[2]) <= MaxDocSpans}}

BadPdf == [openable |-> FALSE, pages |-> <<>>]

CorruptPdf ==
    [openable |-> TRUE,
     pages |-> <<Page(<<[text |-> T_short, size |-> 12, font |-> Sans, y0 |-> 1]>>),
                 UnreadablePage>>]

BlankPdf ==
    [openable |-> TRUE,
     pages |-> <<Page(<<[text |-> <<" ", " ">>, size |-> 12, font |-> Sans, y0 |-> 1]>>)>>]

GoodPdf ==
    [openable |-> TRUE,
     pages |-> <<Page(<<[text |-> T_short, size |-> 12, font |-> Sans, y0 |-> 1],
                        [text |-> T_num, size |-> 10, font |-> Sans, y0 |-> 2]>>)>>]

BatchDocs == {BadPdf, CorruptPdf, BlankPdf, GoodPdf}

BatchFolders == BoundedSeq(BatchDocs, MaxPdfs)

\* names of pdf files: "a.pdf", and the dot files ".pdf" and ".pdf.pdf",
\* which have one stem
N_a == <<"a", ".", "p", "d", "f">>

N_dot == <<".", "p", "d", "f">>

N_dotdot == <<".", "p", "d", "f", ".", "p", "d", "f">>

\* what a glob may find in a folder: at most n of the names, in any order
Listings(names, n) ==
    {ns \in BoundedSeq(names, n) : \A j, k \in DOMAIN ns : j # k => ns[j] # ns[k]}

FolderListings == Listings({N_a, N_dot, N_dotdot}, MaxPdfs)

\* what run() finds in the input directory: the pdfs directly in it, and
\* its subfolders in iterdir order, each with its pdfs
Subfolder(name, names) ==
    [name |-> name, pdfs |-> PdfFiles(<<"input", name>>, names)]

InputTrees ==
    LET listings == Listings({N_a, N_dot}, MaxRunPdfs)
        orders == Listings(FolderNames, Cardinality(FolderNames))
        found(ns) == {[k \in DOMAIN ns |-> Subfolder(ns[k], pdfs[k])] :
                         pdfs \in [DOMAIN ns -> listings]}
    IN  {[direct_pdfs |-> PdfFiles(<<"input">>, names), subfolders |-> sf] :
            names \in listings,
            sf \in UNION {found(ns) : ns \in orders}}

Callers ==
    ProcessPdfsCallers \cup {"run", "run_round_1a", "process_pdfs_in_folder"}

\* ChallengeOrchestrator's constructor has made the output directory; the
\* functions of process_pdfs.py find it there or not
Init ==
    /\ caller \in Callers
    /\ output_dir_exists \in IF caller \in ProcessPdfsCallers THEN BOOLEAN ELSE {TRUE}
    /\ output_dir = <<>>
    /\ subfolders = <<>>
    /\ pdf_paths = <<>>
    /\ i = 0
    /\ attempts = <<>>
    /\ files = <<>>
    /\ raised = {}
    /\ escaped = {}
    /\ pc = "start"
    /\ outline_json_content = NoContent
    /\ fresh_locals

Next ==
    \/ main({<<d>> : d \in RichDocs} \cup BatchFolders)
    \/ process_pdf_outlines_round_1a(BatchFolders)
    \/ run(InputTrees)
    \/ run_round_1a(FolderListings)
    \/ process_pdfs_in_folder(FolderListings)
    \/ Step

Spec == Init /\ [][Next]_vars

BatchNext ==
    \/ main(BatchFolders)
    \/ process_pdf_outlines_round_1a(BatchFolders)
    \/ run(InputTrees)
    \/ run_round_1a(FolderListings)
    \/ process_pdfs_in_folder(FolderListings)
    \/ Step

\* the loops are sequential code that keeps running until it returns
BatchSpec == Init /\ [][BatchNext]_vars /\ WF_vars(BatchNext)

\* a direct call of the functions on a list of blocks
FunctionInit(inputs) ==
    /\ caller = "process_pdf_outlines_round_1a"
    /\ output_dir_exists = TRUE
    /\ output_dir = <<>>
    /\ subfolders = <<>>
    /\ pdf_paths = <<>>
    /\ i = 0
    /\ attempts = <<>>
    /\ files = <<>>
    /\ raised = {}
    /\ escaped = {}
    /\ pc = "style"
    /\ outline_json_content = NoContent
    /\ blocks \in inputs
    /\ body_size = 0
    /\ title_info = NoTitle
    /\ heading_candidates = <<>>
    /\ headings = <<>>
    /\ sections = <<>>

StyleSpec ==
    FunctionInit(BoundedSeq(StyleBlocks, MaxStyleSpans)) /\ [][FunctionNext]_vars

ScoreSpec ==
    FunctionInit(BoundedSeq(ScoreBlocks, MaxScoreSpans)) /\ [][FunctionNext]_vars

LevelSpec ==
    FunctionInit(BoundedSeq(LevelBlocks, MaxLevelSpans)) /\ [][FunctionNext]_vars

OrderSpec ==
    FunctionInit(BoundedSeq(OrderBlocks, MaxOrderSpans)) /\ [][FunctionNext]_vars

classified == pc \in {"outline", "grouped"}

(***************************************************************************)
(* Properties of the functions                                             *)
(***************************************************************************)
BagOfSeq(q) == [x \in Range(q) |-> Cardinality({k \in DOMAIN q : q[k] = x})]

\* (page, y_pos) of a before, or at, that of b
LexLE(a, b) == a.page < b.page \/ (a.page = b.page /\ a.y_pos <= b.y_pos)

LexLT(a, b) == a.page < b.page \/ (a.page = b.page /\ a.y_pos < b.y_pos)

\* C1: the headings returned by identify_and_classify_headings are in reading
\* order: each heading's (page, y_pos) is at or before that of the next one.
C1_ReadingOrder ==
    classified =>
        \A k \in 1..(Len(headings) - 1) : LexLE(headings[k], headings[k + 1])

\* two headings were found in the opposite order and the sort exchanged them
C1_Witness ==
    /\ classified
    /\ Len(headings) >= 2
    /\ headings # leveled(heading_candidates)
    /\ \E k \in 1..(Len(headings) - 1) :
          headings[k].page = headings[k + 1].page
          /\ headings[k].y_pos < headings[k + 1].y_pos

\* the rank of a font size among the candidates: 1 for the largest distinct size
RankOf(fs) ==
    1 + Cardinality({heading_candidates[k].font_size :
                        k \in {j \in DOMAIN heading_candidates :
                                  heading_candidates[j].font_size > fs}})

ExpectedHeading(b) ==
    [level |-> LevelName[RankOf(b.font_size)], text |-> b.text,
     page |-> b.page, y_pos |-> b.y_pos]

RankedCandidates ==
    SelectSeq(heading_candidates, LAMBDA b : RankOf(b.font_size) <= MaxLevels)

\* C2: the outline holds exactly the candidates whose font size is among the
\* three largest distinct candidate sizes, each with level Hk for the k-th
\* largest size; so at most three levels occur, and of two headings the one
\* with the higher level has the strictly larger font size.
C2_LevelsByRank ==
    classified =>
        /\ BagOfSeq(headings) =
               BagOfSeq([k \in DOMAIN RankedCandidates |->
                            ExpectedHeading(RankedCandidates[k])])
        /\ \A k \in DOMAIN headings : headings[k].level \in Range(LevelName)
        /\ \A a, b \in Range(RankedCandidates) :
              RankOf(a.font_size) < RankOf(b.font_size) => a.font_size > b.font_size

\* candidates of four distinct sizes: three levels are used and one size is dropped
C2_Witness ==
    /\ classified
    /\ Cardinality({heading_candidates[k].font_size :
                       k \in DOMAIN heading_candidates}) > MaxLevels
    /\ {headings[k].level : k \in DOMAIN headings} = Range(LevelName)
    /\ Len(headings) < Len(heading_candidates)

\* the rubric: the signals a span shows, and the points of each
SignalPoints ==
    [oversized |-> 2, bold |-> 1, prefix |-> 5, short |-> 1, caps |-> 1]

Shows(b, signal) ==
    CASE signal = "oversized" -> b.font_size > body_size + 1
      [] signal = "bold"      -> contains(lower(b.font_name), bold)
      [] signal = "prefix"    -> heading_pattern_match(b.text)
      [] signal = "short"     -> len_split(b.text) < 15
      [] signal = "caps"      -> isupper(b.text) /\ Len(b.text) > 2

Signals(b) == {signal \in DOMAIN SignalPoints : Shows(b, signal)}

RECURSIVE SumPoints(_)
SumPoints(S) ==
    IF S = {} THEN 0
    ELSE LET x == CHOOSE y \in S : TRUE IN SignalPoints[x] + SumPoints(S \ {x})

Rubric(b) == SumPoints(Signals(b))

SharesTitle(b) ==
    title_info # NoTitle /\ b.page = 1 /\ b.text = title_info.text

\* C3: when a title is selected, no heading on page 1 has the title's text.
C3_TitleExclusion ==
    (classified /\ title_info # NoTitle) =>
        \A k \in DOMAIN headings :
            ~(headings[k].page = 1 /\ headings[k].text = title_info.text)

\* a page-1 block with the title's text scores at least the threshold, and
\* other blocks did become headings
C3_Witness ==
    /\ classified
    /\ title_info # NoTitle
    /\ \E k \in DOMAIN blocks : SharesTitle(blocks[k]) /\ Rubric(blocks[k]) >= 4
    /\ headings # <<>>

\* the position in blocks of the one span selected as the title
TitleIndex ==
    LET first_page == {k \in DOMAIN blocks : blocks[k].page = 1}
        largest == {k \in first_page :
                       \A j \in first_page :
                           blocks[j].font_size <= blocks[k].font_size}
    IN  IF first_page = {} THEN 0 ELSE Min(largest)

\* C4 as stated: every span other than the one span selected as the title is
\* a candidate exactly when its score is at least 4.
C4_Original ==
    classified =>
        \A k \in DOMAIN blocks :
            (k # TitleIndex /\ (TitleIndex # 0 => blocks[k] # blocks[TitleIndex])) =>
                (blocks[k] \in Range(heading_candidates) <=> Rubric(blocks[k]) >= 4)

\* C4 amended: a span is a candidate exactly when its score is at least 4 and
\* it is not a page-1 span whose text equals the title's text (the title span
\* and every page-1 span repeating its text are skipped); a span with the
\* numbered prefix outside that exclusion qualifies on that signal alone.
C4_CandidateIffScore ==
    classified =>
        /\ \A k \in DOMAIN blocks :
              blocks[k] \in Range(heading_candidates)
                  <=> (Rubric(blocks[k]) >= 4 /\ ~SharesTitle(blocks[k]))
        /\ \A k \in DOMAIN blocks :
              (heading_pattern_match(blocks[k].text) /\ ~SharesTitle(blocks[k]))
                  => blocks[k] \in Range(heading_candidates)

\* a long span that is not oversized, not bold and not the title is a
\* candidate by its prefix alone, next to a span that scores 3 and is none
C4_Witness ==
    /\ classified
    /\ \E k \in DOMAIN blocks :
          /\ Rubric(blocks[k]) = 5
          /\ len_split(blocks[k].text) >= 15
          /\ blocks[k] \in Range(heading_candidates)
    /\ \E k \in DOMAIN blocks :
          /\ Rubric(blocks[k]) = 3
          /\ ~SharesTitle(blocks[k])
          /\ blocks[k] \notin Range(heading_candidates)

\* the collection get_body_text_style takes the mode of
StyleSizes ==
    LET all == [k \in DOMAIN blocks |-> blocks[k].font_size]
        small == SelectSeq(all, LAMBDA fs : fs < 20)
    IN  IF small = <<>> THEN all ELSE small

Occurrences(q, v) == Cardinality({k \in DOMAIN q : q[k] = v})

FirstAt(q, v) == Min({k \in DOMAIN q : q[k] = v})

\* C8: get_body_text_style returns 12 for no spans; otherwise a size of the
\* spans below 20 (of all spans when none is below 20) whose count is maximal,
\* and among the sizes of maximal count the one that occurs first.
C8_BodySize ==
    pc # "style" =>
        IF blocks = <<>>
        THEN body_size = 12
        ELSE /\ body_size \in Range(StyleSizes)
             /\ \A v \in Range(StyleSizes) :
                   /\ Occurrences(StyleSizes, v) <= Occurrences(StyleSizes, body_size)
                   /\ Occurrences(StyleSizes, v) = Occurrences(StyleSizes, body_size)
                         => FirstAt(StyleSizes, body_size) <= FirstAt(StyleSizes, v)

\* a large size is left out, two small sizes tie, and the first one is returned
C8_Witness ==
    /\ pc # "style"
    /\ \E k \in DOMAIN blocks : blocks[k].font_size >= 20
    /\ \E v \in Range(StyleSizes) :
          /\ v # body_size
          /\ Occurrences(StyleSizes, v) = Occurrences(StyleSizes, body_size)
    /\ blocks[1].font_size # body_size

\* the span is one of the headings
IsHeadingSpan(b) ==
    \E j \in DOMAIN headings :
        /\ headings[j].text = b.text
        /\ headings[j].page = b.page
        /\ headings[j].y_pos = b.y_pos

InSection(b, k) ==
    /\ LexLT(headings[k], b)
    /\ k + 1 <= Len(headings) => LexLT(b, headings[k + 1])

SectionText(members) ==
    strip(Concat([j \in DOMAIN members |-> members[j].text \o <<"\n">>]))

\* C10 as stated: the content of heading k is made of the texts, in extraction
\* order, of exactly the spans that are not themselves headings and lie
\* strictly between heading k and heading k+1.
C10_SectionMembers ==
    pc = "grouped" =>
        /\ Len(sections) = Len(headings)
        /\ \A k \in DOMAIN sections :
              sections[k].content =
                  SectionText(SelectSeq(blocks, LAMBDA b :
                                  InSection(b, k) /\ ~IsHeadingSpan(b)))

\* what the code does: a span is left out when any heading has its text and page
C10_AsCoded ==
    pc = "grouped" =>
        /\ Len(sections) = Len(headings)
        /\ \A k \in DOMAIN sections :
              sections[k].content =
                  SectionText(SelectSeq(blocks, LAMBDA b :
                                  /\ InSection(b, k)
                                  /\ ~\E j \in DOMAIN headings :
                                         /\ headings[j].text = b.text
                                         /\ headings[j].page = b.page))

(***************************************************************************)
(* Properties of generate_outline_from_pdf and of the batch loops          *)
(***************************************************************************)
\* the call for pdf_paths[i] has returned outline_json_content
returned == pc = "write"

\* C5 as stated: for a document that cannot be opened the returned value has
\* title "", outline [] and an error string.
C5_ErrorVariant ==
    (returned /\ ~pdf_paths[i].openable) =>
        /\ {"title", "outline", "error"} \subseteq DOMAIN outline_json_content
        /\ outline_json_content.title = <<>>
        /\ outline_json_content.outline = <<>>

\* C6 as stated: no call of generate_outline_from_pdf raises to its caller.
C6_NeverRaises == caller \in ProcessPdfsCallers => escaped = {}

\* the extraction call for the pdf returns: the document opens and reads, or
\* the extractor of main.py did not raise
ExtractionSucceeds(pdf) ==
    IF caller \in ProcessPdfsCallers
    THEN pdf.openable /\ ~extract_raises(pdf, NoLimit)
    ELSE pdf \notin escaped

ResultOf(pdf) ==
    IF caller \in ProcessPdfsCallers
    THEN generate_outline_from_pdf(pdf).value
    ELSE extract_pdf_outline(pdf)

\* the <stem>_outline.json of the pdf: run() names the directory after the
\* pdf's folder, "input" for the pdfs directly in the input directory
OutputOf(pdf) ==
    IF caller = "run"
    THEN OutPath(<<"output", IF pdf.dir = <<"input">> THEN "input" ELSE pdf.dir[2]>>,
                 pdf.stem)
    ELSE OutPath(output_dir, pdf.stem)

\* C7 as stated: in a batch every pdf is attempted exactly once, the loop
\* ends, and every pdf whose extraction succeeds has its own output file,
\* whatever happened to the pdfs before and after it.
C7_BatchIsolation ==
    /\ [](\A pdf \in DOMAIN attempts : attempts[pdf] <= 1)
    /\ <>[](pc = "done")
    /\ [](pc = "done" =>
            \A pdf \in DOMAIN attempts :
                /\ attempts[pdf] = 1
                /\ ExtractionSucceeds(pdf) => files[OutputOf(pdf)] = ResultOf(pdf))

\* what the loops do: no pdf is attempted twice and the run ends, by a
\* return or by the exception of a makedirs, mkdir or iterdir; after a
\* return every pdf was attempted once; process_pdfs.py leaves in a pdf's
\* output file what its call returned if the turn did not end in the except
\* clause; in main.py an output file that is there is an old one, or holds
\* the result, or a part of it, of a pdf of its stem; an exception ends a
\* run on one folder before any attempt
C7_AsCoded ==
    /\ [](\A pdf \in DOMAIN attempts : attempts[pdf] <= 1)
    /\ <>[](pc \in {"done", "aborted"})
    /\ [](pc = "aborted" /\ caller # "run" =>
            \A pdf \in DOMAIN attempts : attempts[pdf] = 0)
    /\ [](pc = "done" =>
            /\ escaped \subseteq raised
            /\ \A pdf \in DOMAIN attempts : attempts[pdf] = 1
            /\ caller \in ProcessPdfsCallers =>
                  \A pdf \in DOMAIN attempts :
                      /\ pdf \in escaped <=> generate_outline_from_pdf(pdf).kind = "raise"
                      /\ ~output_dir_exists => pdf \in raised
                      /\ files[OutputOf(pdf)] \in
                            IF pdf \notin raised THEN {ResultOf(pdf)}
                            ELSE IF pdf \in escaped THEN {NoFile, OldFile}
                            ELSE {NoFile, OldFile, Partial(ResultOf(pdf))}
            /\ caller \notin ProcessPdfsCallers =>
                  \A o \in DOMAIN files :
                      \/ files[o] \in {NoFile, OldFile}
                      \/ \E pdf \in DOMAIN attempts :
                            /\ OutputOf(pdf) = o
                            /\ pdf \notin escaped
                            /\ files[o] = IF pdf \in raised
                                          THEN Partial(ResultOf(pdf))
                                          ELSE ResultOf(pdf))

\* C9: the title returned for a document that opens is "" (with an empty
\* outline) when it has no spans, the text of the first page-1 span of the
\* largest page-1 font size when page 1 has spans, and "Untitled" when only
\* later pages have spans; it does not depend on any heading being found.
C9_Title ==
    (returned /\ pdf_paths[i].openable) =>
        LET bs == extract_text_blocks(pdf_paths[i], NoLimit)
            first_page == SelectSeq(bs, LAMBDA b : b.page = 1)
        IN  IF bs = <<>>
            THEN outline_json_content = [title |-> <<>>, outline |-> <<>>]
            ELSE IF first_page = <<>>
            THEN outline_json_content.title = <<"U", "n", "t", "i", "t", "l", "e", "d">>
            ELSE \E j \in DOMAIN first_page :
                    /\ outline_json_content.title = first_page[j].text
                    /\ \A l \in DOMAIN first_page :
                          first_page[l].font_size <= first_page[j].font_size
                    /\ \A l \in 1..(j - 1) :
                          first_page[l].font_size < first_page[j].font_size

\* the title is the text of a later, larger span of page 1, not of its first
\* span, and the outline is empty
C9_Witness ==
    /\ returned
    /\ pdf_paths[i].openable
    /\ LET bs == extract_text_blocks(pdf_paths[i], NoLimit)
       IN  /\ bs # <<>>
           /\ bs[1].page = 1
           /\ outline_json_content.title # bs[1].text
           /\ outline_json_content.outline = <<>>

====
